---- MODULE Spec2Model ----
(***************************************************************************)
(* The bottleneck feature extraction job, script/extract.py, written by    *)
(* the notebook cell at src/unnamed/part_000 lines 161-272.                *)
(*                                                                         *)
(* One run of the script is a sequential process.  pc is its position:     *)
(*   Start -> Enumerate -> Shuffle -> BuildGraph -> GetBatch               *)
(*         -> (Load -> Extract -> GetBatch)* -> Assemble -> Persist -> Done *)
(* and every uncaught exception ends the run in Error.                     *)
(*                                                                         *)
(* Three smaller programs of the repository are modelled next to it, each  *)
(* under a specification of its own:                                       *)
(*   SpecTrain   the compute-target cell and the datastore cell of the     *)
(*               training notebook (src/unnamed/part_000 lines 568-632),   *)
(*   SpecDeploy  the Register, Deploy and test-client cells of the FPGA    *)
(*               notebook (03-Deploy-FPGA/fpga-deployment.ipynb),          *)
(*   SpecScore   one call of run(raw_data) of score.py                     *)
(*               (src/unnamed/part_001 lines 133-159).                     *)
(***************************************************************************)
EXTENDS Integers, Sequences, FiniteSets, TLC

VARIABLES
    FLAGS,               \* the command-line parameters (tf.app.flags.FLAGS)
    fs,                  \* input directory: category -> Missing or file count
    outdir,              \* whether the output directory exists
    outfile,             \* content of the file at the output path
    pc,                  \* position of the run
    error,               \* the exception that ended the run, or NoError
    labeled_image_list,  \* [(path, label)] built by the comprehension
    image_paths,         \* first component of zip(*labeled_image_list)
    labels,              \* second component of zip(*labeled_image_list)
    batchsize,           \* get_batch's argument (pathnames is image_paths)
    gen_i,               \* get_batch's loop variable i (next value of range)
    paths,               \* the batch the for loop currently holds
    image_batch,         \* raw bytes loaded for the current batch
    bottleneck_features, \* the accumulating result list, then the array
    batches,             \* history: the batches yielded so far, in order
    load_log,            \* history: the batches handed to load_images
    run_log,             \* history: the batches handed to sess.run
    prior_file,          \* history: what the output path held before the run
    prior_outdir,        \* history: whether the output directory existed before
    listed,              \* history: the directories os.listdir was called on
    \* the Azure ML workspace and the notebook kernels
    computes,            \* names of the compute targets in the workspace
    datastores,          \* names of the datastores registered in the workspace
    models,              \* versions of model_name in the model registry
    services,            \* model version service_name was deployed from, or 0
    cell,                \* position of the kernel: Idle or inside a cell
    nb_error,            \* the exception that ended the last cell, or NoError
    calls,               \* history: SDK calls of the cell being executed
    runs,                \* history: the cells executed in the session, in order
    dsvm_compute,        \* notebook global of the compute-target cell
    input_ds,            \* notebook global of the datastore cell
    registered_model,    \* notebook global of the Register cell (a version)
    service,             \* notebook global of the Deploy cell
    client,              \* notebook global of the test-client cell
    service_name,        \* notebook global bound by the Register cell
    \* one call of score.py's run(raw_data)
    raw_data,            \* the request body
    score_pc,            \* position of run
    images,              \* np.array(json.loads(raw_data)['data']), preprocessed
    features,            \* featurizer.predict(images)
    predictions,         \* model.predict(features)
    string_predictions,  \* [labels[pred] for pred in predictions]
    exc,                 \* the exception in flight, or NoError
    returned             \* what run returned (a JSON object)

\* the variables of a run of extract.py
extractVars == << FLAGS, fs, outdir, outfile, pc, error, labeled_image_list,
                  image_paths, labels, batchsize, gen_i, paths,
                  image_batch, bottleneck_features, batches,
                  load_log, run_log, prior_file, prior_outdir, listed >>

\* the workspace and the kernel of a notebook
notebookVars == << computes, datastores, models, services, cell, nb_error,
                   calls, runs, dsvm_compute, input_ds, registered_model,
                   service, client,
                    service_name >>

\* the variables of a call of score.py's run
scoreVars == << raw_data, score_pc, images, features, predictions,
                string_predictions, exc, returned >>

vars == << extractVars, notebookVars, scoreVars >>

----------------------------------------------------------------------------
(* Bounds of the model *)

\* the shuffle leaves the list as it is, reversed, or rotated by 1..MaxRot
MaxRot == 1
\* get_batch checked alone: lists of up to MaxN paths, batch sizes 1..MaxB
MaxN == 9
MaxB == 4

\* at most MaxPopulated category directories of the input hold files
MaxPopulated == 2

\* the input holds at most MaxFiles files in all
MaxFiles == 130

\* the model registry holds at most MaxVersions versions of the model
\* before the notebook is run
MaxVersions == 2

\* a scoring request carries at most MaxImages images
MaxImages == 2

\* a notebook cell is executed at most MaxCellRuns times in a kernel session
MaxCellRuns == 1

\* file counts a category directory of the input may hold
DirSizes == {0, 3, 5, 65}

----------------------------------------------------------------------------
(* Program constants *)

DEFAULT_BATCH_SIZE == 64     \* DEFINE_integer('batch_size', 64, ...)
GET_BATCH_DEFAULT == 64      \* def get_batch(pathnames, batchsize=64)
FEATURE_DIM == 2048          \* np.reshape(result[0], (len(result[0]), 2048))

\* values of the --batch_size parameter the run may be started with
BatchSizeFlags == {4, DEFAULT_BATCH_SIZE, 100}

Missing == -1                \* os.listdir raises: the directory does not exist
NoError == "none"

\* the class names numbered from 1 instead of 0
label_map_one_based ==
    [c \in {"Barren", "Cultivated", "Developed", "Forest", "Herbaceous",
            "Shrub"} |->
       CASE c = "Barren"     -> 1
         [] c = "Cultivated" -> 2
         [] c = "Developed"  -> 3
         [] c = "Forest"     -> 4
         [] c = "Herbaceous" -> 5
         [] c = "Shrub"      -> 6]

\* label_map: class names to numeric labels
label_map == [c \in {"Barren", "Cultivated", "Developed", "Forest",
                     "Herbaceous", "Shrub"} |->
                CASE c = "Barren"     -> 0
                  [] c = "Cultivated" -> 1
                  [] c = "Developed"  -> 2
                  [] c = "Forest"     -> 3
                  [] c = "Herbaceous" -> 4
                  [] c = "Shrub"      -> 5]

\* folders = list(label_map.keys()): the keys in insertion order
folders == << "Barren", "Cultivated", "Developed", "Forest", "Herbaceous",
              "Shrub" >>

Categories == DOMAIN label_map

----------------------------------------------------------------------------
(* Helpers on sequences *)

Min(a, b) == IF a < b THEN a ELSE b

\* Python's s[a:b] for 0 <= a <= b
Slice(s, a, b) == SubSeq(s, a + 1, Min(b, Len(s)))

Reverse(s) == [k \in 1..Len(s) |-> s[Len(s) + 1 - k]]

Rotate(s, r) == [k \in 1..Len(s) |-> s[((k - 1 + r) % Len(s)) + 1]]

RECURSIVE Concat(_)
Concat(ss) == IF ss = << >> THEN << >> ELSE Head(ss) \o Concat(Tail(ss))

----------------------------------------------------------------------------
(* The HDF5 file at os.path.join(FLAGS.output_data_dir, FLAGS.file_name) *)

NoDset == [present |-> FALSE, data |-> << >>]

Dset(d) == [present |-> TRUE, data |-> d]

\* no file at the output path
NoFile == [exists |-> FALSE, features |-> NoDset, labels |-> NoDset]

\* h5py.File(output_file, "w"): the file created or truncated, no dataset yet
EmptyH5 == [exists |-> TRUE, features |-> NoDset, labels |-> NoDset]

\* the raw bytes read from the file at path p
Bytes(p) == [file |-> p]

\* one row of the reshaped result: the extractor's output for image img
Feature(img) == [image |-> img.file, dim |-> FEATURE_DIM]

\* the artifact an earlier run left at the output path (one Forest image)
OldArtifact == [exists |-> TRUE,
                features |-> Dset(<< Feature(Bytes(<< "Forest", 0 >>)) >>),
                labels |-> Dset(<< label_map["Forest"] >>)]

\* per-image element counts the imported graph may deliver to np.reshape
ExtractorDims == {FEATURE_DIM, 1000}

----------------------------------------------------------------------------
(* Pure functions of the script *)

\* a listing that loses the directory's first entry
ListDirSkipFirst(dir, folder) == [k \in 1..(dir[folder] - 1) |-> << folder, k + 1 >>]

\* os.listdir(os.path.join(img_dir, folder)) joined with the folder
ListDir(dir, folder) == [k \in 1..dir[folder] |-> << folder, k >>]

\* an enumeration that also walks the Water directory of the input root
RECURSIVE LabeledImagesWalkRoot(_, _)
LabeledImagesWalkRoot(dir, fseq) ==
    IF fseq = << >>
    THEN IF "Water" \in DOMAIN dir /\ dir["Water"] > 0
         THEN [k \in 1..dir["Water"] |-> << << "Water", k >>, 0 >>]
         ELSE << >>
    ELSE LET folder == Head(fseq)
         IN  [k \in 1..dir[folder] |-> << << folder, k >>, label_map[folder] >>]
             \o LabeledImagesWalkRoot(dir, Tail(fseq))

\* [(path, label_map[folder]) for folder in folders for image in listdir]
RECURSIVE LabeledImages(_, _)
LabeledImages(dir, fseq) ==
    IF fseq = << >> THEN << >>
    ELSE LET folder == Head(fseq)
             listing == ListDir(dir, folder)
         IN  [k \in 1..Len(listing) |-> << listing[k], label_map[folder] >>]
             \o LabeledImages(dir, Tail(fseq))

\* a draw with replacement in place of the shuffle: entries may repeat
ShuffleWithReplacement(l) == {l, [k \in 1..Len(l) |-> l[1]]}

\* a shuffle that loses the last entry of the list
ShuffleDropLast(l) == {l, SubSeq(l, 1, Len(l) - 1)}

\* the orders random.shuffle may leave the list in (a bounded family):
\* unchanged, reversed, or rotated by 1..MaxRot
ShuffleOutcomes(l) ==
    {l, Reverse(l)} \cup { Rotate(l, r) : r \in 1..Min(MaxRot, Len(l) - 1) }

\* paths and labels taken apart in different orders
ZipStarSeparateOrders(l) ==
    << [k \in 1..Len(l) |-> l[k][1]], [k \in 1..Len(l) |-> l[Len(l) + 1 - k][2]] >>

\* zip(*l) of a non-empty list of pairs: (firsts, seconds)
ZipStar(l) == << [k \in 1..Len(l) |-> l[k][1]], [k \in 1..Len(l) |-> l[k][2]] >>

\* a slice one entry too long: successive batches overlap
get_batch_overlap(pn, bs, i) == Slice(pn, i, i + bs + 1)

\* a slice one entry too short: an entry is lost between successive batches
get_batch_short(pn, bs, i) == Slice(pn, i, i + bs - 1)

\* the slice get_batch yields at loop value i
get_batch(pn, bs, i) == Slice(pn, i, i + bs)

\* a list of images kept from call to call (images=[] as a default argument)
load_images_accumulate(batch) ==
    image_batch \o [k \in 1..Len(batch) |-> Bytes(batch[k])]

\* load_images(batch) when every open succeeds
load_images(batch) == [k \in 1..Len(batch) |-> Bytes(batch[k])]

\* np.reshape(result[0], (len(result[0]), 2048)) of one row per fed image
Reshaped(imgs) == [k \in 1..Len(imgs) |-> Feature(imgs[k])]

\* the rows as sess.run delivers them, d elements per image
WithDim(rows, d) == [k \in 1..Len(rows) |-> [rows[k] EXCEPT !.dim = d]]

\* a reshape to (len(result[0]), -1): any element count per row is accepted
ReshapeFitsAny(d) == TRUE

\* np.reshape(result[0], (len(result[0]), 2048)) raises unless each row of
\* the result has 2048 elements
ReshapeFits(d) == d = FEATURE_DIM

\* the list rebound to the last result instead of extended
ExtendReplace(acc, result) == result

\* the result put in front of the list instead of at its end
ExtendFront(acc, result) == result \o acc

\* bottleneck_features.extend(result)
\* extend that loses the first row of every batch result
ExtendSkipFirstRow(acc, result) == acc \o Tail(result)

Extend(acc, result) == acc \o result

----------------------------------------------------------------------------
(* The run *)

\* number of files in the directories of fseq that exist
RECURSIVE FilesIn(_, _)
FilesIn(dir, fseq) ==
    IF fseq = << >> THEN 0
    ELSE (IF dir[Head(fseq)] = Missing THEN 0 ELSE dir[Head(fseq)])
           + FilesIn(dir, Tail(fseq))

\* the input directories the run may be started on: each category directory
\* is missing or holds one of DirSizes files
InputDirs ==
    { d \in [Categories -> DirSizes \cup {Missing}] :
        /\ Cardinality({ c \in Categories : d[c] > 0 }) <= MaxPopulated
        /\ FilesIn(d, folders) <= MaxFiles }

Raise(kind) ==
    /\ pc' = "Error"
    /\ error' = kind

\* no notebook cell is being executed (the run of extract.py is checked on
\* its own)
NotebooksIdle ==
    /\ computes = {}
    /\ datastores = {}
    /\ models = 0
    /\ services = 0
    /\ cell = "Idle"
    /\ nb_error = NoError
    /\ calls = << >>
    /\ runs = << >>
    /\ dsvm_compute = "unset"
    /\ input_ds = "unset"
    /\ registered_model = 0
    /\ service = 0
    /\ client = 0
    /\ service_name = "unset"

\* no scoring request is being served
ScoreIdle ==
    /\ raw_data = [json |-> FALSE, has_data |-> FALSE, n |-> 0]
    /\ score_pc = "Idle"
    /\ images = << >>
    /\ features = << >>
    /\ predictions = << >>
    /\ string_predictions = << >>
    /\ exc = NoError
    /\ returned = [pending |-> TRUE]

Init ==
    /\ FLAGS \in [batch_size : BatchSizeFlags]
    /\ fs \in InputDirs
    /\ outdir \in BOOLEAN
    /\ outfile \in (IF outdir THEN {NoFile, OldArtifact} ELSE {NoFile})
    /\ prior_file = outfile
    /\ prior_outdir = outdir
    /\ pc = "Start"
    /\ error = NoError
    /\ labeled_image_list = << >>
    /\ image_paths = << >>
    /\ labels = << >>
    /\ batchsize = 0
    /\ gen_i = 0
    /\ paths = << >>
    /\ image_batch = << >>
    /\ bottleneck_features = << >>
    /\ batches = << >>
    /\ load_log = << >>
    /\ run_log = << >>
    /\ listed = << >>
    /\ NotebooksIdle
    /\ ScoreIdle

\* main without the os.makedirs call
MainNoMakedirs ==
    /\ pc = "Start"
    /\ pc' = "Enumerate"
    /\ UNCHANGED << FLAGS, fs, outdir, outfile, error, labeled_image_list,
                    image_paths, labels, batchsize, gen_i, paths, image_batch,
                    bottleneck_features, batches, load_log,
                    run_log, prior_file, prior_outdir, listed,
                    notebookVars, scoreVars >>

\* main that creates the output directory only when the input directory
\* has all of its category directories
MainMakedirsIfInputOk ==
    /\ pc = "Start"
    /\ outdir' = (outdir \/ \A c \in Categories : fs[c] # Missing)
    /\ pc' = "Enumerate"
    /\ UNCHANGED << FLAGS, fs, outfile, error, labeled_image_list, image_paths,
                    labels, batchsize, gen_i, paths, image_batch,
                    bottleneck_features, batches, load_log,
                    run_log, prior_file, prior_outdir, listed,
                    notebookVars, scoreVars >>

\* main: os.makedirs(FLAGS.output_data_dir, exist_ok=True)
Main ==
    /\ pc = "Start"
    /\ outdir' = TRUE
    /\ pc' = "Enumerate"
    /\ UNCHANGED << FLAGS, fs, outfile, error, labeled_image_list, image_paths,
                    labels, batchsize, gen_i, paths, image_batch,
                    bottleneck_features, batches, load_log,
                    run_log, prior_file, prior_outdir, listed,
                    notebookVars, scoreVars >>

\* position in folders of the first category directory that is missing
FirstMissing(dir) ==
    CHOOSE k \in 1..Len(folders) :
        /\ dir[folders[k]] = Missing
        /\ \A j \in 1..(k - 1) : dir[folders[j]] # Missing

\* the list comprehension over folders and os.listdir
Enumerate ==
    /\ pc = "Enumerate"
    /\ IF \E k \in 1..Len(folders) : fs[folders[k]] = Missing
       THEN /\ Raise("listdir")
            /\ listed' = SubSeq(folders, 1, FirstMissing(fs))
            /\ UNCHANGED labeled_image_list
       ELSE /\ labeled_image_list' = LabeledImages(fs, folders)
            /\ listed' = folders
            /\ pc' = "Shuffle"
            /\ UNCHANGED error
    /\ UNCHANGED << FLAGS, fs, outdir, outfile, image_paths, labels,
                    batchsize, gen_i, paths, image_batch, bottleneck_features,
                    batches, load_log, run_log, prior_file, prior_outdir,
                    notebookVars, scoreVars >>

\* a split that accepts the empty list and yields two empty sequences
ShuffleEmptyOk ==
    /\ pc = "Shuffle"
    /\ \E shuffled \in ShuffleOutcomes(labeled_image_list) :
         /\ labeled_image_list' = shuffled
         /\ image_paths' = ZipStar(shuffled)[1]
         /\ labels' = ZipStar(shuffled)[2]
         /\ pc' = "BuildGraph"
         /\ UNCHANGED error
    /\ UNCHANGED << FLAGS, fs, outdir, outfile, batchsize, gen_i,
                    paths, image_batch, bottleneck_features, batches,
                    load_log, run_log, prior_file, prior_outdir, listed,
                    notebookVars, scoreVars >>

\* random.shuffle(labeled_image_list); image_paths, labels = zip(*...)
Shuffle ==
    /\ pc = "Shuffle"
    /\ \E shuffled \in ShuffleOutcomes(labeled_image_list) :
         /\ labeled_image_list' = shuffled
         /\ IF shuffled = << >>
            THEN /\ Raise("unpack")
                 /\ UNCHANGED << image_paths, labels >>
            ELSE /\ image_paths' = ZipStar(shuffled)[1]
                 /\ labels' = ZipStar(shuffled)[2]
                 /\ pc' = "BuildGraph"
                 /\ UNCHANGED error
    /\ UNCHANGED << FLAGS, fs, outdir, outfile, batchsize, gen_i,
                    paths, image_batch, bottleneck_features, batches, load_log, run_log, prior_file, prior_outdir, listed,
                    notebookVars, scoreVars >>

\* the set-up that also opens the output file for writing before the loop
BuildGraphOpenFile ==
    /\ pc = "BuildGraph"
    /\ \/ /\ batchsize' = GET_BATCH_DEFAULT
          /\ gen_i' = 0
          /\ outfile' = EmptyH5
          /\ pc' = "GetBatch"
          /\ UNCHANGED error
       \/ /\ Raise("graph")
          /\ UNCHANGED << batchsize, gen_i, outfile >>
    /\ UNCHANGED << FLAGS, fs, outdir, labeled_image_list, image_paths,
                    labels, paths, image_batch, bottleneck_features,
                    batches, load_log, run_log, prior_file, prior_outdir, listed,
                    notebookVars, scoreVars >>

\* placeholder, preprocess_array, QuantizedResnet50, import_graph_def,
\* tf.Session() and the call get_batch(image_paths)
BuildGraph ==
    /\ pc = "BuildGraph"
    /\ \/ /\ batchsize' = GET_BATCH_DEFAULT
          /\ gen_i' = 0
          /\ pc' = "GetBatch"
          /\ UNCHANGED error
       \/ /\ Raise("graph")
          /\ UNCHANGED << batchsize, gen_i >>
    /\ UNCHANGED << FLAGS, fs, outdir, outfile, labeled_image_list, image_paths,
                    labels, paths, image_batch, bottleneck_features,
                    batches, load_log, run_log, prior_file, prior_outdir, listed,
                    notebookVars, scoreVars >>

\* a generator whose index stays where it is after a yield
GetBatchNoAdvance ==
    /\ pc = "GetBatch"
    /\ IF gen_i < Len(image_paths)
       THEN /\ paths' = get_batch(image_paths, batchsize, gen_i)
            /\ batches' = Append(batches, paths')
            /\ gen_i' = gen_i
            /\ pc' = "Load"
       ELSE /\ pc' = "Assemble"
            /\ UNCHANGED << paths, batches, gen_i >>
    /\ UNCHANGED << FLAGS, fs, outdir, outfile, error, labeled_image_list,
                    image_paths, labels, batchsize, image_batch,
                    bottleneck_features, load_log, run_log,
                    prior_file, prior_outdir, listed,
                    notebookVars, scoreVars >>

\* one step of the generator: for i in range(0, len(pathnames), batchsize)
GetBatch ==
    /\ pc = "GetBatch"
    /\ IF gen_i < Len(image_paths)
       THEN /\ paths' = get_batch(image_paths, batchsize, gen_i)
            /\ batches' = Append(batches, paths')
            /\ gen_i' = gen_i + batchsize
            /\ pc' = "Load"
       ELSE /\ pc' = "Assemble"
            /\ UNCHANGED << paths, batches, gen_i >>
    /\ UNCHANGED << FLAGS, fs, outdir, outfile, error, labeled_image_list,
                    image_paths, labels, batchsize, image_batch,
                    bottleneck_features, load_log, run_log,
                    prior_file, prior_outdir, listed,
                    notebookVars, scoreVars >>

\* load_images tried a second time when the first attempt fails
LoadImagesRetry ==
    /\ pc = "Load"
    /\ load_log' = Append(load_log, Len(batches))
    /\ \/ /\ image_batch' = load_images(paths)
          /\ pc' = "Extract"
          /\ UNCHANGED error
       \/ /\ IF load_log = << >> \/ load_log[Len(load_log)] # Len(batches)
             THEN UNCHANGED << pc, error >>
             ELSE Raise("read")
          /\ UNCHANGED image_batch
    /\ UNCHANGED << FLAGS, fs, outdir, outfile, labeled_image_list, image_paths,
                    labels, batchsize, gen_i, paths,
                    bottleneck_features, batches, run_log,
                    prior_file, prior_outdir, listed,
                    notebookVars, scoreVars >>

\* load_images that swallows the failed open and goes on with the batch
LoadImagesSwallow ==
    /\ pc = "Load"
    /\ load_log' = Append(load_log, Len(batches))
    /\ \/ /\ image_batch' = load_images(paths)
          /\ UNCHANGED error
       \/ /\ image_batch' = load_images(Tail(paths))
          /\ error' = "read"
    /\ pc' = "Extract"
    /\ UNCHANGED << FLAGS, fs, outdir, outfile, labeled_image_list, image_paths,
                    labels, batchsize, gen_i, paths,
                    bottleneck_features, batches, run_log,
                    prior_file, prior_outdir, listed,
                    notebookVars, scoreVars >>

\* image_batch = load_images(paths)
LoadImages ==
    /\ pc = "Load"
    /\ load_log' = Append(load_log, Len(batches))
    /\ \/ /\ image_batch' = load_images(paths)
          /\ pc' = "Extract"
          /\ UNCHANGED error
       \/ /\ Raise("read")
          /\ UNCHANGED image_batch
    /\ UNCHANGED << FLAGS, fs, outdir, outfile, labeled_image_list, image_paths,
                    labels, batchsize, gen_i, paths,
                    bottleneck_features, batches, run_log,
                    prior_file, prior_outdir, listed,
                    notebookVars, scoreVars >>

\* the loop body with a checkpoint: the rows so far are written to the
\* output path after each batch
ExtractCheckpoint ==
    /\ pc = "Extract"
    /\ run_log' = Append(run_log, Len(batches))
    /\ \/ /\ bottleneck_features' =
               Extend(bottleneck_features, Reshaped(image_batch))
          /\ outfile' = [EmptyH5 EXCEPT !.features = Dset(bottleneck_features')]
          /\ pc' = "GetBatch"
          /\ UNCHANGED error
       \/ /\ Raise("extract")
          /\ UNCHANGED << bottleneck_features, outfile >>
    /\ UNCHANGED << FLAGS, fs, outdir, labeled_image_list, image_paths,
                    labels, batchsize, gen_i, paths, image_batch,
                    batches, load_log, prior_file, prior_outdir, listed,
                    notebookVars, scoreVars >>

\* sess.run, np.reshape and bottleneck_features.extend
Extract ==
    /\ pc = "Extract"
    /\ run_log' = Append(run_log, Len(batches))
    /\ \/ \E d \in ExtractorDims :
            IF ReshapeFits(d)
            THEN /\ bottleneck_features' =
                      Extend(bottleneck_features,
                             WithDim(Reshaped(image_batch), d))
                 /\ pc' = "GetBatch"
                 /\ UNCHANGED error
            ELSE /\ Raise("reshape")
                 /\ UNCHANGED bottleneck_features
       \/ /\ Raise("extract")
          /\ UNCHANGED bottleneck_features
    /\ UNCHANGED << FLAGS, fs, outdir, outfile, labeled_image_list, image_paths,
                    labels, batchsize, gen_i, paths, image_batch,
                    batches, load_log, prior_file, prior_outdir, listed,
                    notebookVars, scoreVars >>

\* an assembly step that also reverses the labels
AssembleReorderLabels ==
    /\ pc = "Assemble"
    /\ pc' = "Persist"
    /\ labels' = Reverse(labels)
    /\ UNCHANGED << FLAGS, fs, outdir, outfile, error, labeled_image_list,
                    image_paths, batchsize, gen_i, paths,
                    image_batch, bottleneck_features, batches, load_log,
                    run_log, prior_file, prior_outdir, listed,
                    notebookVars, scoreVars >>

\* bottleneck_features = np.array(bottleneck_features): the list of rows of
\* 2048 elements becomes the array of the same rows, under the same name
Assemble ==
    /\ pc = "Assemble"
    /\ pc' = "Persist"
    /\ UNCHANGED << FLAGS, fs, outdir, outfile, error, labeled_image_list,
                    image_paths, labels, batchsize, gen_i, paths,
                    image_batch, bottleneck_features, batches, load_log,
                    run_log, prior_file, prior_outdir, listed,
                    notebookVars, scoreVars >>

\* the file opened for appending: the rows are added after those it held
PersistAppend ==
    /\ pc = "Persist"
    /\ \/ /\ outfile' = [exists |-> TRUE,
                         features |-> Dset(outfile.features.data \o bottleneck_features),
                         labels |-> Dset(outfile.labels.data \o labels)]
          /\ pc' = "Done"
          /\ UNCHANGED error
       \/ /\ outfile' = outfile
          /\ Raise("write")
    /\ UNCHANGED << FLAGS, fs, outdir, labeled_image_list, image_paths, labels,
                    batchsize, gen_i, paths, image_batch,
                    bottleneck_features, batches, load_log,
                    run_log, prior_file, prior_outdir, listed,
                    notebookVars, scoreVars >>

\* with h5py.File(output_file, "w"): create_dataset features, then labels
Persist ==
    /\ pc = "Persist"
    /\ \/ /\ outfile' = [exists |-> TRUE, features |-> Dset(bottleneck_features),
                         labels |-> Dset(labels)]
          /\ pc' = "Done"
          /\ UNCHANGED error
       \/ /\ outfile' \in {outfile, EmptyH5,
                           [EmptyH5 EXCEPT !.features = Dset(bottleneck_features)]}
          /\ Raise("write")
    /\ UNCHANGED << FLAGS, fs, outdir, labeled_image_list, image_paths, labels,
                    batchsize, gen_i, paths, image_batch,
                    bottleneck_features, batches, load_log,
                    run_log, prior_file, prior_outdir, listed,
                    notebookVars, scoreVars >>

Next ==
    \/ Main
    \/ Enumerate
    \/ Shuffle
    \/ BuildGraph
    \/ GetBatch
    \/ LoadImages
    \/ Extract
    \/ Assemble
    \/ Persist

Spec == Init /\ [][Next]_vars

\* a run in which every call returns or raises: the interpreter goes on to
\* the next statement as long as there is one
FairSpec == Spec /\ WF_vars(Next)

----------------------------------------------------------------------------
(* get_batch alone: the generator driven over any list and batch size *)

InitBatch ==
    /\ FLAGS = [batch_size |-> DEFAULT_BATCH_SIZE]
    /\ fs = [c \in Categories |-> 0]
    /\ outdir = TRUE
    /\ outfile = NoFile
    /\ prior_file = NoFile
    /\ prior_outdir = TRUE
    /\ pc = "GetBatch"
    /\ error = NoError
    /\ labeled_image_list = << >>
    /\ image_paths \in { [k \in 1..n |-> << "Barren", k >>] : n \in 0..MaxN }
    /\ labels = << >>
    /\ batchsize \in 1..MaxB
    /\ gen_i = 0
    /\ paths = << >>
    /\ image_batch = << >>
    /\ bottleneck_features = << >>
    /\ batches = << >>
    /\ load_log = << >>
    /\ run_log = << >>
    /\ listed = << >>
    /\ NotebooksIdle
    /\ ScoreIdle

\* the consumer of the generator asks for the next batch
Resume ==
    /\ pc = "Load"
    /\ pc' = "GetBatch"
    /\ UNCHANGED << FLAGS, fs, outdir, outfile, error, labeled_image_list,
                    image_paths, labels, batchsize, gen_i, paths,
                    image_batch, bottleneck_features, batches,
                    load_log, run_log, prior_file, prior_outdir, listed,
                    notebookVars, scoreVars >>

NextBatch ==
    \/ GetBatch
    \/ Resume

SpecBatch == InitBatch /\ [][NextBatch]_vars

----------------------------------------------------------------------------
(* The run on an input root that holds more than the six category
   directories *)

\* a plain file in the input root (not a directory)
PlainFile == -2

\* entries of the input root besides the six category directories
ExtraEntries == {"Water", "README.md"}

\* what an extra entry may be: absent, an empty directory, a directory of
\* three files, or a plain file
ExtraKinds == {Missing, 0, 3, PlainFile}

\* input roots with extra entries; the category directories are missing,
\* empty or hold three files, at most MaxPopulated of them populated
RootDirs ==
    { d \in [Categories \cup ExtraEntries -> ExtraKinds] :
        /\ \A c \in Categories : d[c] # PlainFile
        /\ Cardinality({ c \in Categories : d[c] > 0 }) <= MaxPopulated }

InitRoot ==
    /\ FLAGS = [batch_size |-> DEFAULT_BATCH_SIZE]
    /\ fs \in RootDirs
    /\ outdir = TRUE
    /\ outfile = NoFile
    /\ prior_file = NoFile
    /\ prior_outdir = TRUE
    /\ pc = "Start"
    /\ error = NoError
    /\ labeled_image_list = << >>
    /\ image_paths = << >>
    /\ labels = << >>
    /\ batchsize = 0
    /\ gen_i = 0
    /\ paths = << >>
    /\ image_batch = << >>
    /\ bottleneck_features = << >>
    /\ batches = << >>
    /\ load_log = << >>
    /\ run_log = << >>
    /\ listed = << >>
    /\ NotebooksIdle
    /\ ScoreIdle

SpecRoot == InitRoot /\ [][Next]_vars

----------------------------------------------------------------------------
(* The compute-target cell and the datastore cell of the training notebook *)

compute_target_name == "gpudsvm"

datastore_name == "input_images"

\* names a workspace may hold compute targets and datastores under
ComputeNames == {compute_target_name, "cpucluster"}

DatastoreNames == {datastore_name, "workspacefilestore"}

\* exception classes: the SDK's "no such compute target", any exception of a
\* lookup of something absent, and a failure of the service or the network
ComputeTargetException == "ComputeTargetException"

ServiceError == "ServiceError"

\* an except clause that catches everything
CatchesAll(handler, e) == TRUE

\* whether the except clause `handler` catches exception e ("bare" is the
\* clause without a class)
Catches(handler, e) == handler = "bare" \/ handler = e

\* what a lookup by name does: it returns the object when it is in the
\* workspace and raises notFound when it is not; either way the call may
\* fail for another reason
LookupOutcomes(present, notFound) ==
    IF present THEN {"returned", ServiceError} ELSE {notFound, ServiceError}

\* an entry of calls
Call(name, present, outcome) ==
    [call |-> name, present |-> present, outcome |-> outcome]

\* the run of extract.py is not part of the notebook cells
ExtractIdle ==
    /\ FLAGS = [batch_size |-> DEFAULT_BATCH_SIZE]
    /\ fs = [c \in Categories |-> 0]
    /\ outdir = TRUE
    /\ outfile = NoFile
    /\ prior_file = NoFile
    /\ prior_outdir = TRUE
    /\ pc = "Start"
    /\ error = NoError
    /\ labeled_image_list = << >>
    /\ image_paths = << >>
    /\ labels = << >>
    /\ batchsize = 0
    /\ gen_i = 0
    /\ paths = << >>
    /\ image_batch = << >>
    /\ bottleneck_features = << >>
    /\ batches = << >>
    /\ load_log = << >>
    /\ run_log = << >>
    /\ listed = << >>

InitTrain ==
    /\ ExtractIdle
    /\ ScoreIdle
    /\ computes \in SUBSET ComputeNames
    /\ datastores \in SUBSET DatastoreNames
    /\ models = 0
    /\ services = 0
    /\ cell = "Idle"
    /\ nb_error = NoError
    /\ calls = << >>
    /\ runs = << >>
    /\ dsvm_compute = "unset"
    /\ input_ds = "unset"
    /\ registered_model = 0
    /\ service = 0
    /\ client = 0
    /\ service_name = "unset"

\* number of times cell c was executed in the session
Executions(c) == Cardinality({ k \in 1..Len(runs) : runs[k] = c })

\* the user executes cell c, which starts at position first
StartCell(c, first) ==
    /\ cell = "Idle"
    /\ Executions(c) < MaxCellRuns
    /\ runs' = Append(runs, c)
    /\ cell' = first
    /\ calls' = << >>
    /\ nb_error' = NoError

\* an exception leaves the cell
CellRaises(e) ==
    /\ cell' = "Idle"
    /\ nb_error' = e

StartDsvmCell ==
    /\ StartCell("dsvm", "DsvmTry")
    /\ UNCHANGED << extractVars, scoreVars, computes, datastores, models,
                    services, dsvm_compute, input_ds, registered_model,
                    service, client,
                    service_name >>

\* try: dsvm_compute = DsvmCompute(workspace=ws, name=compute_target_name)
\* except ComputeTargetException: ...
DsvmLookup ==
    /\ cell = "DsvmTry"
    /\ \E o \in LookupOutcomes(compute_target_name \in computes,
                               ComputeTargetException) :
         /\ calls' = Append(calls, Call("DsvmCompute",
                                        compute_target_name \in computes, o))
         /\ IF o = "returned"
            THEN /\ dsvm_compute' = compute_target_name
                 /\ cell' = "Idle"
                 /\ UNCHANGED nb_error
            ELSE IF Catches(ComputeTargetException, o)
            THEN /\ cell' = "DsvmExcept"
                 /\ UNCHANGED << dsvm_compute, nb_error >>
            ELSE /\ CellRaises(o)
                 /\ UNCHANGED dsvm_compute
    /\ UNCHANGED << extractVars, scoreVars, computes, datastores, models,
                    services, runs, input_ds, registered_model, service,
                    client, service_name >>

\* dsvm_config = DsvmCompute.provisioning_configuration(...)
\* dsvm_compute = DsvmCompute.create(ws, name=..., provisioning_configuration=...)
DsvmCreate ==
    /\ cell = "DsvmExcept"
    /\ \E o \in {"returned", ServiceError} :
         /\ calls' = Append(calls, Call("DsvmCompute.create",
                                        compute_target_name \in computes, o))
         /\ IF o = "returned"
            THEN /\ computes' = computes \cup {compute_target_name}
                 /\ dsvm_compute' = compute_target_name
                 /\ cell' = "DsvmWait"
                 /\ UNCHANGED nb_error
            ELSE /\ CellRaises(o)
                 /\ UNCHANGED << computes, dsvm_compute >>
    /\ UNCHANGED << extractVars, scoreVars, datastores, models, services,
                    runs, input_ds, registered_model, service, client,
                    service_name >>

\* dsvm_compute.wait_for_completion(show_output=True)
DsvmWait ==
    /\ cell = "DsvmWait"
    /\ \E o \in {"returned", ServiceError} :
         /\ calls' = Append(calls, Call("wait_for_completion", TRUE, o))
         /\ IF o = "returned"
            THEN cell' = "Idle" /\ UNCHANGED nb_error
            ELSE CellRaises(o)
    /\ UNCHANGED << extractVars, scoreVars, computes, datastores, models,
                    services, runs, dsvm_compute, input_ds,
                    registered_model, service, client,
                    service_name >>

\* the exception of Datastore.get for a name that is not registered
DatastoreNotFound == "DatastoreNotFound"

StartDatastoreCell ==
    /\ StartCell("datastore", "DsTry")
    /\ UNCHANGED << extractVars, scoreVars, computes, datastores, models,
                    services, dsvm_compute, input_ds, registered_model,
                    service, client,
                    service_name >>

\* try: input_ds = Datastore.get(ws, datastore_name)
\* except: ...
DatastoreGet ==
    /\ cell = "DsTry"
    /\ \E o \in LookupOutcomes(datastore_name \in datastores,
                               DatastoreNotFound) :
         /\ calls' = Append(calls, Call("Datastore.get",
                                        datastore_name \in datastores, o))
         /\ IF o = "returned"
            THEN /\ input_ds' = datastore_name
                 /\ cell' = "DsPrint"
                 /\ UNCHANGED nb_error
            ELSE IF Catches("bare", o)
            THEN /\ cell' = "DsExcept"
                 /\ UNCHANGED << input_ds, nb_error >>
            ELSE /\ CellRaises(o)
                 /\ UNCHANGED input_ds
    /\ UNCHANGED << extractVars, scoreVars, computes, datastores, models,
                    services, runs, dsvm_compute, registered_model, service,
                    client, service_name >>

\* input_ds = Datastore.register_azure_blob_container(workspace=ws, ...)
DatastoreRegister ==
    /\ cell = "DsExcept"
    /\ \E o \in {"returned", ServiceError} :
         /\ calls' = Append(calls, Call("register_azure_blob_container",
                                        datastore_name \in datastores, o))
         /\ IF o = "returned"
            THEN /\ datastores' = datastores \cup {datastore_name}
                 /\ input_ds' = datastore_name
                 /\ cell' = "DsPrint"
                 /\ UNCHANGED nb_error
            ELSE /\ CellRaises(o)
                 /\ UNCHANGED << datastores, input_ds >>
    /\ UNCHANGED << extractVars, scoreVars, computes, models, services,
                    runs, dsvm_compute, registered_model, service, client,
                    service_name >>

\* print(input_ds.name, ...); output_ds = ws.get_default_datastore(); print
DatastorePrint ==
    /\ cell = "DsPrint"
    /\ \E o \in {"returned", ServiceError} :
         /\ calls' = Append(calls, Call("get_default_datastore", TRUE, o))
         /\ IF o = "returned"
            THEN cell' = "Idle" /\ UNCHANGED nb_error
            ELSE CellRaises(o)
    /\ UNCHANGED << extractVars, scoreVars, computes, datastores, models,
                    services, runs, dsvm_compute, input_ds,
                    registered_model, service, client,
                    service_name >>

NextTrain ==
    \/ StartDsvmCell
    \/ DsvmLookup
    \/ DsvmCreate
    \/ DsvmWait
    \/ StartDatastoreCell
    \/ DatastoreGet
    \/ DatastoreRegister
    \/ DatastorePrint

SpecTrain == InitTrain /\ [][NextTrain]_vars

----------------------------------------------------------------------------
(* The Register, Deploy and test-client cells of the FPGA notebook *)

WebserviceException == "WebserviceException"

NameError == "NameError"

\* the model version Webservice.deploy_from_model deploys: [registered_model]
DeployedVersion == registered_model

\* the registry holds versions 1..models; a service of the name, when there
\* is one, was deployed from one of them
InitDeploy ==
    /\ ExtractIdle
    /\ ScoreIdle
    /\ computes = {}
    /\ datastores = {}
    /\ models \in 0..MaxVersions
    /\ services \in 0..models
    /\ cell = "Idle"
    /\ nb_error = NoError
    /\ calls = << >>
    /\ runs = << >>
    /\ dsvm_compute = "unset"
    /\ input_ds = "unset"
    /\ registered_model = 0
    /\ service = 0
    /\ client = 0
    /\ service_name = "unset"

StartRegisterCell ==
    /\ StartCell("register", "RegisterConfig")
    /\ UNCHANGED << extractVars, scoreVars, computes, datastores, models,
                    services, dsvm_compute, input_ds, registered_model,
                    service, client, service_name >>

\* ws = Workspace.from_config(); model_name = ...; service_name = ...
RegisterConfig ==
    /\ cell = "RegisterConfig"
    /\ \E o \in {"returned", ServiceError} :
         /\ calls' = Append(calls, Call("Workspace.from_config", TRUE, o))
         /\ IF o = "returned"
            THEN /\ service_name' = "aerial-brainwave-service"
                 /\ cell' = "RegisterModel"
                 /\ UNCHANGED nb_error
            ELSE /\ CellRaises(o)
                 /\ UNCHANGED service_name
    /\ UNCHANGED << extractVars, scoreVars, computes, datastores, models,
                    services, runs, dsvm_compute, input_ds,
                    registered_model, service, client >>

\* registered_model = Model.register(ws, model_def_path, model_name)
ModelRegister ==
    /\ cell = "RegisterModel"
    /\ \E o \in {"returned", ServiceError} :
         /\ calls' = Append(calls, Call("Model.register", models > 0, o))
         /\ IF o = "returned"
            THEN /\ models' = models + 1
                 /\ registered_model' = models + 1
                 /\ cell' = "Idle"
                 /\ UNCHANGED nb_error
            ELSE /\ CellRaises(o)
                 /\ UNCHANGED << models, registered_model >>
    /\ UNCHANGED << extractVars, scoreVars, computes, datastores, services,
                    runs, dsvm_compute, input_ds, service, client,
                    service_name >>

StartDeployCell ==
    /\ StartCell("deploy", "DeployTry")
    /\ UNCHANGED << extractVars, scoreVars, computes, datastores, models,
                    services, dsvm_compute, input_ds, registered_model,
                    service, client, service_name >>

\* try: service = Webservice(ws, service_name)
\* except WebserviceException: ...
WebserviceLookup ==
    /\ cell = "DeployTry"
    /\ \E o \in (IF service_name = "unset" THEN {NameError}
                 ELSE LookupOutcomes(services # 0, WebserviceException)) :
         /\ calls' = Append(calls, Call("Webservice", services # 0, o))
         /\ IF o = "returned"
            THEN /\ service' = services
                 /\ cell' = "Idle"
                 /\ UNCHANGED nb_error
            ELSE IF Catches(WebserviceException, o)
            THEN /\ cell' = "DeployExcept"
                 /\ UNCHANGED << service, nb_error >>
            ELSE /\ CellRaises(o)
                 /\ UNCHANGED service
    /\ UNCHANGED << extractVars, scoreVars, computes, datastores, models,
                    services, runs, dsvm_compute, input_ds,
                    registered_model, client, service_name >>

\* service = Webservice.deploy_from_model(ws, service_name,
\*                                        [registered_model], ...)
WebserviceDeploy ==
    /\ cell = "DeployExcept"
    /\ \E o \in (IF registered_model = 0 THEN {NameError}
                 ELSE {"returned", ServiceError}) :
         /\ calls' = Append(calls, Call("Webservice.deploy_from_model",
                                        services # 0, o))
         /\ IF o = "returned"
            THEN /\ services' = DeployedVersion
                 /\ service' = DeployedVersion
                 /\ cell' = "DeployWait"
                 /\ UNCHANGED nb_error
            ELSE /\ CellRaises(o)
                 /\ UNCHANGED << services, service >>
    /\ UNCHANGED << extractVars, scoreVars, computes, datastores, models,
                    runs, dsvm_compute, input_ds, registered_model, client,
                    service_name >>

\* service.wait_for_deployment(True)
WebserviceWait ==
    /\ cell = "DeployWait"
    /\ \E o \in {"returned", ServiceError} :
         /\ calls' = Append(calls, Call("wait_for_deployment", TRUE, o))
         /\ IF o = "returned"
            THEN cell' = "Idle" /\ UNCHANGED nb_error
            ELSE CellRaises(o)
    /\ UNCHANGED << extractVars, scoreVars, computes, datastores, models,
                    services, runs, dsvm_compute, input_ds,
                    registered_model, service, client, service_name >>

StartClientCell ==
    /\ StartCell("client", "Client")
    /\ UNCHANGED << extractVars, scoreVars, computes, datastores, models,
                    services, dsvm_compute, input_ds, registered_model,
                    service, client, service_name >>

\* client = PredictionClient(service.ipAddress, service.port)
NewPredictionClient ==
    /\ cell = "Client"
    /\ IF service = 0
       THEN /\ calls' = Append(calls, Call("PredictionClient", FALSE, NameError))
            /\ CellRaises(NameError)
            /\ UNCHANGED client
       ELSE /\ calls' = Append(calls, Call("PredictionClient", TRUE, "returned"))
            /\ client' = service
            /\ cell' = "Idle"
            /\ UNCHANGED nb_error
    /\ UNCHANGED << extractVars, scoreVars, computes, datastores, models,
                    services, runs, dsvm_compute, input_ds,
                    registered_model, service, service_name >>

NextDeploy ==
    \/ StartRegisterCell
    \/ RegisterConfig
    \/ ModelRegister
    \/ StartDeployCell
    \/ WebserviceLookup
    \/ WebserviceDeploy
    \/ WebserviceWait
    \/ StartClientCell
    \/ NewPredictionClient

SpecDeploy == InitDeploy /\ [][NextDeploy]_vars

----------------------------------------------------------------------------
(* score.py: one call of run(raw_data) *)

\* the list labels of run, in its order
score_labels == << "Barren", "Cultivated", "Developed", "Forest",
                   "Herbaceous", "Shrub" >>

\* request bodies: text that is not JSON, a JSON object without 'data', and
\* JSON objects whose 'data' holds n images
Requests ==
    { [json |-> FALSE, has_data |-> FALSE, n |-> 0],
      [json |-> TRUE, has_data |-> FALSE, n |-> 0] }
        \cup { [json |-> TRUE, has_data |-> TRUE, n |-> k] : k \in 0..MaxImages }

\* class values the loaded classifier may predict: the six indices, and 6
\* for a class the list has no name for
PredValues == 0..6

\* the classes derived from Exception that the steps of run raise
ExceptionSubclasses ==
    {"JSONDecodeError", "KeyError", "ValueError", "IndexError"}

\* a handler written for the JSON errors only
HandlerCatchesJsonOnly(e) == e \in {"JSONDecodeError", "KeyError"}

\* except Exception as e
HandlerCatches(e) == e \in ExceptionSubclasses

\* labels[pred] of a Python list: an index from the end when negative,
\* IndexError outside -len..len-1
PyIndex(list, i) ==
    IF i \in 0..(Len(list) - 1) THEN list[i + 1]
    ELSE IF i \in (0 - Len(list))..(0 - 1) THEN list[Len(list) + i + 1]
    ELSE "IndexError"

InitScore ==
    /\ ExtractIdle
    /\ NotebooksIdle
    /\ raw_data \in Requests
    /\ score_pc = "Parse"
    /\ images = << >>
    /\ features = << >>
    /\ predictions = << >>
    /\ string_predictions = << >>
    /\ exc = NoError
    /\ returned = [pending |-> TRUE]

\* an exception is raised inside the try block
ScoreRaises(e) ==
    /\ exc' = e
    /\ score_pc' = IF HandlerCatches(e) THEN "Except" ELSE "Escaped"

\* images = np.array(json.loads(raw_data)['data'])
ScoreParse ==
    /\ score_pc = "Parse"
    /\ IF ~raw_data.json
       THEN ScoreRaises("JSONDecodeError") /\ UNCHANGED images
       ELSE IF ~raw_data.has_data
       THEN ScoreRaises("KeyError") /\ UNCHANGED images
       ELSE /\ images' = [k \in 1..raw_data.n |-> [image |-> k]]
            /\ score_pc' = "Featurize"
            /\ UNCHANGED exc
    /\ UNCHANGED << extractVars, notebookVars, raw_data, features,
                    predictions, string_predictions, returned >>

\* images = resnet50.preprocess_input(images.astype(float))
\* features = featurizer.predict(images)
ScoreFeaturize ==
    /\ score_pc = "Featurize"
    /\ \/ /\ features' = [k \in 1..Len(images) |-> [of |-> images[k].image]]
          /\ score_pc' = "Predict"
          /\ UNCHANGED exc
       \/ /\ ScoreRaises("ValueError")
          /\ UNCHANGED features
    /\ UNCHANGED << extractVars, notebookVars, raw_data, images,
                    predictions, string_predictions, returned >>

\* predictions = model.predict(features)
ScorePredict ==
    /\ score_pc = "Predict"
    /\ \/ /\ predictions' \in [1..Len(features) -> PredValues]
          /\ score_pc' = "Lookup"
          /\ UNCHANGED exc
       \/ /\ ScoreRaises("ValueError")
          /\ UNCHANGED predictions
    /\ UNCHANGED << extractVars, notebookVars, raw_data, images, features,
                    string_predictions, returned >>

\* string_predictions = [labels[pred] for pred in predictions]
ScoreLookup ==
    /\ score_pc = "Lookup"
    /\ IF \E k \in 1..Len(predictions) :
              PyIndex(score_labels, predictions[k]) = "IndexError"
       THEN ScoreRaises("IndexError") /\ UNCHANGED string_predictions
       ELSE /\ string_predictions' =
                 [k \in 1..Len(predictions) |->
                      PyIndex(score_labels, predictions[k])]
            /\ score_pc' = "Return"
            /\ UNCHANGED exc
    /\ UNCHANGED << extractVars, notebookVars, raw_data, images, features,
                    predictions, returned >>

\* except Exception as e: return json.dumps({"error": str(e)})
ScoreExcept ==
    /\ score_pc = "Except"
    /\ returned' = [error |-> exc]
    /\ score_pc' = "Done"
    /\ UNCHANGED << extractVars, notebookVars, raw_data, images, features,
                    predictions, string_predictions, exc >>

\* return json.dumps({"predictions": predictions.tolist(),
\*                    "labels": string_predictions})
ScoreReturn ==
    /\ score_pc = "Return"
    /\ returned' = [predictions |-> predictions,
                    labels |-> string_predictions]
    /\ score_pc' = "Done"
    /\ UNCHANGED << extractVars, notebookVars, raw_data, images, features,
                    predictions, string_predictions, exc >>

NextScore ==
    \/ ScoreParse
    \/ ScoreFeaturize
    \/ ScorePredict
    \/ ScoreLookup
    \/ ScoreExcept
    \/ ScoreReturn

SpecScore == InitScore /\ [][NextScore]_vars

----------------------------------------------------------------------------
(* Properties *)

RECURSIVE SumSizes(_, _)
SumSizes(dir, fseq) ==
    IF fseq = << >> THEN 0 ELSE dir[Head(fseq)] + SumSizes(dir, Tail(fseq))

\* number of directory entries listed across the six category directories
TotalFiles == SumSizes(fs, folders)

AllDirsExist == \A c \in Categories : fs[c] # Missing

\* the batch loop has run to its end
LoopDone == pc \in {"Assemble", "Persist", "Done"}

\* number of batches entry e occurs in
BatchesHolding(e) ==
    Cardinality({ k \in 1..Len(batches) :
                    \E j \in 1..Len(batches[k]) : batches[k][j] = e })

\* number of positions of sequence s holding value v
Count(s, v) == Cardinality({ k \in 1..Len(s) : s[k] = v })

\* failures of the environment: file reads, the extractor, the write
EnvFailures == {"graph", "read", "extract", "reshape", "write"}

\* C1: in every run that reaches Done, the 'features' dataset has as many
\* rows as the 'labels' dataset has entries, and both equal the number of
\* directory entries listed across the six category directories.
C1_RowsEqualLabelsEqualTotal ==
    pc = "Done" =>
        /\ outfile.features.present /\ outfile.labels.present
        /\ Len(outfile.features.data) = Len(outfile.labels.data)
        /\ Len(outfile.labels.data) = TotalFiles

C1_Witness ==
    /\ pc = "Done"
    /\ TotalFiles = 130
    /\ Len(outfile.features.data) = 130

\* C2: for every row i of the written artifact, labels[i] is the integer
\* label_map gives to the category directory holding the image path at
\* position i of the shuffled sequence; the same pairing holds of the
\* in-memory sequences from the shuffle on.
C2_LabelsFollowPaths ==
    /\ Len(labels) = Len(image_paths)
    /\ \A i \in 1..Len(image_paths) : labels[i] = label_map[image_paths[i][1]]
    /\ pc = "Done" =>
         /\ Len(outfile.labels.data) = Len(image_paths)
         /\ \A i \in 1..Len(image_paths) :
              outfile.labels.data[i] = label_map[image_paths[i][1]]

C2_Witness ==
    /\ pc = "Done"
    /\ \E i, j \in 1..Len(image_paths) :
         /\ i < j
         /\ outfile.labels.data[i] > outfile.labels.data[j]

\* C3: for every row i of the written artifact, features[i] is the
\* extractor's output for the image at position i of the shuffled sequence;
\* during the loop the accumulated list is that sequence's prefix of outputs.
C3_FeaturesFollowPaths ==
    /\ Len(bottleneck_features) <= Len(image_paths)
    /\ \A i \in 1..Len(bottleneck_features) :
         bottleneck_features[i] = Feature(Bytes(image_paths[i]))
    /\ pc = "Done" =>
         /\ Len(outfile.features.data) = Len(image_paths)
         /\ \A i \in 1..Len(image_paths) :
              /\ outfile.features.data[i] = Feature(Bytes(image_paths[i]))
              /\ outfile.labels.data[i] =
                   label_map[outfile.features.data[i].image[1]]

C3_Witness ==
    /\ pc = "Done"
    /\ Len(batches) = 3
    /\ outfile.features.data[130] = Feature(Bytes(image_paths[130]))
    /\ image_paths[1][1] # image_paths[130][1]

\* C4: the batches yielded so far are consecutive slices of the shuffled
\* sequence, and once the loop has ended their concatenation is the whole
\* sequence and every entry is in exactly one batch.
C4_BatchesPartition ==
    /\ LET c == Concat(batches)
       IN  /\ Len(c) <= Len(image_paths)
           /\ c = SubSeq(image_paths, 1, Len(c))
    /\ LoopDone => Concat(batches) = image_paths
    /\ pc = "Assemble" =>
         \A i \in 1..Len(image_paths) : BatchesHolding(image_paths[i]) = 1

C4_Witness ==
    /\ LoopDone
    /\ Len(batches) = 3
    /\ Concat(batches) = image_paths

\* ceil(n / b) for b > 0
Ceil(n, b) == (n + b - 1) \div b

\* C5: for N > 0 entries and batch size b, get_batch yields ceil(N/b)
\* batches in all; every batch but the last has b entries, the last has
\* 1..b entries, and no yielded batch is empty.
C5_BatchCountAndSizes ==
    /\ \A k \in 1..Len(batches) :
         /\ Len(batches[k]) >= 1
         /\ Len(batches[k]) <= batchsize
    /\ \A k \in 1..(Len(batches) - 1) : Len(batches[k]) = batchsize
    /\ (pc = "Assemble" /\ Len(image_paths) > 0) =>
         Len(batches) = Ceil(Len(image_paths), batchsize)

C5_Witness ==
    /\ pc = "Assemble"
    /\ Len(image_paths) = 7
    /\ batchsize = 3
    /\ Len(batches) = 3
    /\ Len(batches[3]) = 1

\* C6: the batch_size parameter sets the batch size used: no batch handed
\* to the extractor has more than FLAGS.batch_size entries.
C6_BatchSizeParameterUsed ==
    \A k \in 1..Len(batches) : Len(batches[k]) <= FLAGS.batch_size

\* C7: when the configured batch size exceeds the image count (> 0), the
\* loop forms exactly one batch, holding all images.
C7_OneBatchWhenSizeExceedsCount ==
    (LoopDone /\ Len(image_paths) > 0 /\ FLAGS.batch_size > Len(image_paths)) =>
        /\ Len(batches) = 1
        /\ batches[1] = image_paths

\* the input has two populated categories, of 3 and 5 images
TwoCategories35 ==
    \E c1, c2 \in Categories :
        /\ c1 # c2
        /\ fs[c1] = 3
        /\ fs[c2] = 5
        /\ \A c \in Categories \ {c1, c2} : fs[c] \in {0, Missing}

\* the artifact has 8 rows of 2048 elements and 8 labels, the two
\* categories' indices, 3 and 5 times
Artifact35 ==
    /\ pc = "Done"
    /\ Len(outfile.features.data) = 8
    /\ \A i \in 1..8 : outfile.features.data[i].dim = 2048
    /\ Len(outfile.labels.data) = 8
    /\ \E c1, c2 \in Categories :
         /\ fs[c1] = 3 /\ fs[c2] = 5
         /\ { outfile.labels.data[i] : i \in 1..8 } = { label_map[c1], label_map[c2] }
         /\ Count(outfile.labels.data, label_map[c1]) = 3
         /\ Count(outfile.labels.data, label_map[c2]) = 5

\* C8 as stated: on an input that has two categories, of 3 and 5 images,
\* run with batch size 4, the job ends in Done (short of a failure of the
\* environment) with the 8-row artifact.
C8_Original ==
    (TwoCategories35 /\ FLAGS.batch_size = 4) =>
        /\ pc = "Error" => error \in EnvFailures
        /\ pc = "Done" => Artifact35

\* C8 amended: the same, on an input whose other four category directories
\* exist and are empty.
C8_TwoCategoriesOthersEmpty ==
    (TwoCategories35 /\ AllDirsExist /\ FLAGS.batch_size = 4) =>
        /\ pc = "Error" => error \in EnvFailures
        /\ pc = "Done" => Artifact35

C8_Witness ==
    /\ TwoCategories35 /\ AllDirsExist /\ FLAGS.batch_size = 4
    /\ Artifact35

\* C9: a category directory that exists and is empty raises no error: with
\* all six directories present the run fails only on a failure of the
\* environment, and in Done the row count is the other categories' total.
C9_EmptyCategoryNoError ==
    (AllDirsExist /\ \E c \in Categories : fs[c] = 0) =>
        /\ pc = "Error" => error \in EnvFailures
        /\ pc = "Done" => Len(outfile.features.data) = TotalFiles

\* C10: fail-fast.  A missing category directory ends the run in Error at
\* the enumeration; after any failure before the write the run is in Error
\* (never Done), the output file is as it was before the run, the failing
\* batch is the last one yielded, loaded or extracted, and every batch was
\* loaded and extracted at most once, in order.
C10_FailFast ==
    /\ (~AllDirsExist /\ pc \notin {"Start", "Enumerate"}) =>
         (pc = "Error" /\ error = "listdir")
    /\ pc = "Done" => error = NoError
    /\ error # NoError => pc = "Error"
    /\ error \in {"listdir", "unpack", "graph", "read", "extract", "reshape"} =>
         (outfile = prior_file /\ pc # "Persist")
    /\ error \in {"listdir", "unpack", "graph"} =>
         (batches = << >> /\ load_log = << >> /\ run_log = << >>)
    /\ error = "read" =>
         /\ load_log = [k \in 1..Len(batches) |-> k]
         /\ run_log = [k \in 1..(Len(batches) - 1) |-> k]
    /\ error \in {"extract", "reshape"} =>
         /\ load_log = [k \in 1..Len(batches) |-> k]
         /\ run_log = load_log

C10_Witness ==
    /\ pc = "Error"
    /\ error = "read"
    /\ TotalFiles = 130
    /\ Len(batches) = 2
    /\ Len(bottleneck_features) = 64
    /\ outfile = prior_file
    /\ prior_file = OldArtifact

\* C11: after a run that reaches Done the file at the output path exists and
\* holds exactly this run's two datasets, 'features' and 'labels'; nothing of
\* what the file held before the run is left in it.
C11_ArtifactReplaced ==
    pc = "Done" =>
        /\ outfile.exists
        /\ outfile.features = Dset(bottleneck_features)
        /\ outfile.labels = Dset(labels)
        /\ Len(outfile.features.data) = TotalFiles
        /\ Len(outfile.labels.data) = TotalFiles
        /\ \A i \in 1..Len(outfile.features.data) :
             \A j \in 1..Len(prior_file.features.data) :
               outfile.features.data[i] # prior_file.features.data[j]

C11_Witness ==
    /\ pc = "Done"
    /\ prior_file = OldArtifact
    /\ TotalFiles = 8
    /\ Len(outfile.features.data) = 8
    /\ outfile # prior_file

\* C12: the output directory exists from the end of main on, whether it was
\* absent (it is created) or present (no error is raised) at the start, so
\* it exists before the artifact is written.
C12_OutputDirExists ==
    /\ pc # "Start" => outdir
    /\ pc = "Enumerate" => error = NoError
    /\ outfile # prior_file => outdir

C12_Witness ==
    /\ pc = "Done"
    /\ ~prior_outdir
    /\ outdir
    /\ outfile.exists

\* C13: every row accumulated by the batch loop has exactly 2048 elements,
\* whatever batch it came from, so the array written has shape (N, 2048).
C13_RowsHave2048 ==
    /\ \A i \in 1..Len(bottleneck_features) : bottleneck_features[i].dim = 2048
    /\ pc = "Done" =>
         /\ Len(outfile.features.data) = TotalFiles
         /\ \A i \in 1..Len(outfile.features.data) :
              outfile.features.data[i].dim = 2048

C13_Witness ==
    /\ pc = "Done"
    /\ Len(batches) = 3
    /\ Len(batches[3]) = 2
    /\ outfile.features.data[1].dim = 2048
    /\ outfile.features.data[65].dim = 2048
    /\ outfile.features.data[130].dim = 2048

\* C14: the shapes of the two datasets and the multiset of label values are
\* fixed by the input directory alone, whatever order the shuffle picked:
\* N rows of 2048 elements, N labels, and label_map[c] exactly as often as
\* category c has files.  Two runs on one input so differ in row order only.
C14_ShapeFixedByInput ==
    pc = "Done" =>
        /\ Len(outfile.features.data) = TotalFiles
        /\ \A i \in 1..Len(outfile.features.data) :
             outfile.features.data[i].dim = FEATURE_DIM
        /\ Len(outfile.labels.data) = TotalFiles
        /\ \A c \in Categories :
             Count(outfile.labels.data, label_map[c]) = fs[c]

C14_Witness ==
    /\ pc = "Done"
    /\ TotalFiles = 8
    /\ image_paths # ZipStar(LabeledImages(fs, folders))[1]
    /\ image_paths # Reverse(ZipStar(LabeledImages(fs, folders))[1])
    /\ \E c \in Categories : Count(outfile.labels.data, label_map[c]) = 5

\* C15: the label vocabulary is the six category names, each mapped to its
\* position: Barren 0, Cultivated 1, Developed 2, Forest 3, Herbaceous 4,
\* Shrub 5; every entry carries the number of its folder and every label
\* held or written is in 0..5.
C15_LabelVocabulary ==
    /\ Len(folders) = 6
    /\ \A k \in 1..Len(folders) : label_map[folders[k]] = k - 1
    /\ label_map["Barren"] = 0 /\ label_map["Cultivated"] = 1
    /\ label_map["Developed"] = 2 /\ label_map["Forest"] = 3
    /\ label_map["Herbaceous"] = 4 /\ label_map["Shrub"] = 5
    /\ \A i \in 1..Len(labeled_image_list) :
         /\ labeled_image_list[i][2] \in 0..5
         /\ folders[labeled_image_list[i][2] + 1] = labeled_image_list[i][1][1]
    /\ \A i \in 1..Len(labels) : labels[i] \in 0..5
    /\ pc = "Done" =>
         \A i \in 1..Len(outfile.labels.data) : outfile.labels.data[i] \in 0..5

C15_Witness ==
    /\ pc = "Done"
    /\ fs["Barren"] = 3
    /\ fs["Shrub"] = 65
    /\ Count(outfile.labels.data, 0) = 3
    /\ Count(outfile.labels.data, 5) = 65

PhaseOf(p) ==
    CASE p = "Start"     -> 0
      [] p = "Enumerate" -> 1
      [] p = "Shuffle"   -> 2
      [] p \in {"BuildGraph", "GetBatch", "Load", "Extract"} -> 3
      [] p = "Assemble"  -> 4
      [] p = "Persist"   -> 5
      [] p = "Done"      -> 6
      [] p = "Error"     -> 7

\* C17: every step of a run stays in the batch loop, moves to the next
\* phase of Start, Enumerate, Shuffle, Batch-loop, Assemble, Persist, Done,
\* or ends the run in Error; no step leaves Done or Error, so no phase is
\* entered twice; and only a step of Persist changes the output file.
C17_PhasesInOrder ==
    [][ /\ pc \notin {"Done", "Error"}
        /\ \/ PhaseOf(pc') = PhaseOf(pc) + 1
           \/ PhaseOf(pc') = 3 /\ PhaseOf(pc) = 3
           \/ pc' = "Error"
        /\ outfile' # outfile => pc = "Persist" ]_vars

C17_Witness ==
    /\ pc = "Done"
    /\ Len(batches) = 3
    /\ Len(run_log) = 3
    /\ outfile # prior_file
    /\ Len(outfile.features.data) = 130

\* rows the batches before the k-th contribute to the result list
RowsBefore(k) == Concat([ j \in 1..(k - 1) |-> Reshaped(load_images(batches[j])) ])

\* C18: batches go through load and extraction one after another: the k-th
\* load is of batch k and the k-th extractor call is on batch k, a batch is
\* loaded only when the rows of every earlier batch are already in the
\* result list, at most one batch is between its load and its append, and
\* the result list changes only by growing at its end.
C18_StrictlySequential ==
    /\ []( /\ load_log = [ k \in 1..Len(load_log) |-> k ]
           /\ run_log = [ k \in 1..Len(run_log) |-> k ]
           /\ Len(load_log) <= Len(batches)
           /\ Len(run_log) <= Len(load_log)
           /\ Len(batches) - Len(run_log) <= 1
           /\ pc = "Load" =>
                /\ Len(load_log) = Len(batches) - 1
                /\ Len(run_log) = Len(load_log)
                /\ bottleneck_features = RowsBefore(Len(batches))
           /\ pc = "Extract" =>
                /\ Len(load_log) = Len(batches)
                /\ Len(run_log) = Len(batches) - 1
                /\ bottleneck_features = RowsBefore(Len(batches)) )
    /\ [][ /\ Len(bottleneck_features') >= Len(bottleneck_features)
           /\ SubSeq(bottleneck_features', 1, Len(bottleneck_features))
                = bottleneck_features ]_vars

C18_Witness ==
    /\ pc = "Load"
    /\ Len(batches) = 2
    /\ load_log = << 1 >>
    /\ run_log = << 1 >>
    /\ Len(bottleneck_features) = GET_BATCH_DEFAULT

\* C19: when every step returns or raises, the run reaches Done or Error;
\* the loop index moves strictly forward at every yield and never moves
\* back, and the number of batches never exceeds ceil(N / 64).
C19_Terminates ==
    /\ <>(pc \in {"Done", "Error"})
    /\ [][ /\ gen_i' >= gen_i
           /\ (pc = "GetBatch" /\ pc' = "Load") => gen_i' > gen_i ]_vars
    /\ [](Len(batches) <= Ceil(Len(image_paths), GET_BATCH_DEFAULT))

C19_Witness ==
    /\ pc = "Done"
    /\ Len(batches) = 3
    /\ gen_i = 3 * GET_BATCH_DEFAULT
    /\ Len(image_paths) = 130

\* C20: after the shuffle step no step changes the sequence of image paths
\* or the sequence of labels: through the batch loop, Assemble and Persist
\* both are the two columns of the shuffled list, and the labels dataset
\* of a finished run is that labels sequence.
C20_OrderFixedAfterShuffle ==
    /\ [][ pc \notin {"Start", "Enumerate", "Shuffle"} =>
             /\ image_paths' = image_paths
             /\ labels' = labels
             /\ labeled_image_list' = labeled_image_list ]_vars
    /\ [](PhaseOf(pc) \in 3..6 =>
             /\ image_paths = ZipStar(labeled_image_list)[1]
             /\ labels = ZipStar(labeled_image_list)[2])
    /\ [](pc = "Done" => outfile.labels = Dset(labels))

C20_Witness ==
    /\ pc = "Done"
    /\ Len(labels) = 8
    /\ labels # Reverse(labels)
    /\ outfile.labels = Dset(labels)
    /\ Len(batches) = 1

\* the set of entries of a sequence
Range(s) == { s[k] : k \in 1..Len(s) }

\* C21: once the enumeration has been shuffled, the entry list is a
\* permutation of the enumeration: the enumeration lists every (path, label)
\* pair once, and the shuffled list has the same length and the same pairs,
\* so none is lost, repeated or added.
C21_ShuffleIsPermutation ==
    (pc \notin {"Start", "Enumerate"} /\ error # "listdir") =>
        LET enumerated == LabeledImages(fs, folders)
        IN  /\ Len(labeled_image_list) = Len(enumerated)
            /\ Range(labeled_image_list) = Range(enumerated)
            /\ Cardinality(Range(enumerated)) = Len(enumerated)

C21_Witness ==
    /\ pc = "BuildGraph"
    /\ Len(labeled_image_list) = 68
    /\ labeled_image_list # LabeledImages(fs, folders)
    /\ labeled_image_list # Reverse(LabeledImages(fs, folders))

\* no index occurs twice in a log
NoRepeat(log) == \A j, k \in 1..Len(log) : j # k => log[j] # log[k]

\* C22: no batch is loaded twice and no batch is submitted to the
\* extractor twice. A run that failed while loading loaded the failing batch
\* once and never submitted it; a run that failed in extraction submitted
\* the failing batch once; after either failure nothing is loaded or
\* submitted again.
C22_NoRetry ==
    /\ []( /\ NoRepeat(load_log)
           /\ NoRepeat(run_log)
           /\ \A k \in 1..Len(load_log) : load_log[k] \in 1..Len(batches)
           /\ \A k \in 1..Len(run_log) : run_log[k] \in 1..Len(batches)
           /\ error = "read" =>
                /\ load_log[Len(load_log)] = Len(batches)
                /\ \A k \in 1..Len(run_log) : run_log[k] # Len(batches)
           /\ error \in {"extract", "reshape"} =>
                run_log[Len(run_log)] = Len(batches) )
    /\ [][ pc = "Error" => (load_log' = load_log /\ run_log' = run_log) ]_vars

C22_Witness ==
    /\ pc = "Error"
    /\ error = "read"
    /\ Len(batches) = 2
    /\ load_log = << 1, 2 >>
    /\ run_log = << 1 >>

\* C26: up to and including the arrival at Persist the file at the output
\* path is the one found at the start, and a run that aborts before the
\* write (enumeration, split, graph, load, extraction, reshape) leaves it
\* so: no file is created where there was none, and an earlier artifact
\* keeps both of its datasets, unchanged.
C26_AbortLeavesFileUntouched ==
    /\ pc \notin {"Done", "Error"} => outfile = prior_file
    /\ (pc = "Error" /\ error # "write") =>
         /\ outfile = prior_file
         /\ outfile.exists = prior_file.exists
         /\ prior_file = OldArtifact =>
              /\ outfile.features = OldArtifact.features
              /\ outfile.labels = OldArtifact.labels

C26_Witness ==
    /\ pc = "Error"
    /\ error = "extract"
    /\ Len(batches) = 2
    /\ Len(bottleneck_features) = GET_BATCH_DEFAULT
    /\ prior_file = OldArtifact
    /\ outfile = OldArtifact

\* C27: the output directory is created by main, before the enumeration
\* starts, and stays: a run that is at or past the enumeration, and one that
\* aborted on a missing category directory in particular, has the output
\* directory, also when it was absent at the start; the run aborted at the
\* enumeration has listed no entry, processed no batch and written no file.
C27_OutputDirBeforeEnumeration ==
    /\ pc = "Enumerate" => (outdir /\ labeled_image_list = << >>)
    /\ pc = "Error" => outdir
    /\ error = "listdir" =>
         /\ outdir
         /\ outfile = prior_file
         /\ ~prior_outdir => ~outfile.exists
         /\ labeled_image_list = << >>
         /\ batches = << >>

C27_Witness ==
    /\ pc = "Error"
    /\ error = "listdir"
    /\ ~prior_outdir
    /\ outdir
    /\ ~outfile.exists
    /\ \E c \in Categories : fs[c] = 5

\* all six category directories exist and hold no file
AllEmpty == \A c \in Categories : fs[c] = 0

\* C28: on an input whose six category directories all exist and are empty
\* the run never gets past the split of the entry list: it ends in Error
\* there (the unpacking of zip(*[]) fails), with no batch formed or loaded
\* and the output file untouched; and any run that is Done enumerated at
\* least one image.
C28_AllEmptyEndsInError ==
    /\ [](AllEmpty =>
            /\ pc \in {"Start", "Enumerate", "Shuffle", "Error"}
            /\ pc = "Error" => error = "unpack"
            /\ batches = << >> /\ load_log = << >> /\ run_log = << >>
            /\ outfile = prior_file)
    /\ [](pc = "Done" => (Len(labeled_image_list) >= 1 /\ TotalFiles >= 1))
    /\ (AllEmpty ~> (pc = "Error" /\ error = "unpack"))

C28_Witness ==
    /\ AllEmpty
    /\ pc = "Error"
    /\ error = "unpack"
    /\ prior_file = OldArtifact
    /\ outfile = OldArtifact

\* C29: on an input root that holds other entries besides the six category
\* directories, os.listdir is called on category directories only, in the
\* order of folders; every enumerated entry, every batch entry and every
\* row of the artifact comes from a category directory; the number of rows
\* is the number of files in the six directories; and the run fails only
\* for a missing category directory, for six empty ones, or for a failure
\* of the environment, never because of an extra entry.
C29_OnlyNamedDirectoriesRead ==
    /\ \A k \in 1..Len(listed) : listed[k] = folders[k]
    /\ Len(listed) <= Len(folders)
    /\ \A k \in 1..Len(labeled_image_list) :
         labeled_image_list[k][1][1] \in Categories
    /\ \A k \in 1..Len(bottleneck_features) :
         bottleneck_features[k].image[1] \in Categories
    /\ pc = "Done" =>
         /\ Len(outfile.features.data) = TotalFiles
         /\ \A k \in 1..Len(outfile.features.data) :
              outfile.features.data[k].image[1] \in Categories
    /\ pc = "Error" =>
         error \in EnvFailures
                     \cup (IF AllDirsExist THEN {} ELSE {"listdir"})
                     \cup (IF AllEmpty THEN {"unpack"} ELSE {})

C29_Witness ==
    /\ pc = "Done"
    /\ fs["Water"] = 3
    /\ fs["README.md"] = PlainFile
    /\ TotalFiles = 6
    /\ Len(outfile.features.data) = 6
    /\ listed = folders

\* positions in calls of the calls of SDK function f
CallsOf(f) == { k \in 1..Len(calls) : calls[k].call = f }

\* C23: in one execution of the compute-target cell DsvmCompute.create is
\* called at most once, and only directly after a lookup that raised
\* ComputeTargetException for a name that is not in the workspace; when
\* 'gpudsvm' is in the workspace no create is called, and the lookup that
\* returns binds dsvm_compute to it.
C23_DsvmGetOrCreate ==
    /\ Cardinality(CallsOf("DsvmCompute.create")) <= 1
    /\ Cardinality(CallsOf("DsvmCompute")) <= 1
    /\ \A k \in CallsOf("DsvmCompute.create") :
         /\ k > 1
         /\ calls[k - 1].call = "DsvmCompute"
         /\ calls[k - 1].outcome = ComputeTargetException
         /\ ~calls[k - 1].present
    /\ \A k \in CallsOf("DsvmCompute") :
         calls[k].present =>
           /\ CallsOf("DsvmCompute.create") = {}
           /\ calls[k].outcome = "returned" =>
                dsvm_compute = compute_target_name

C23_Witness ==
    /\ cell = "Idle"
    /\ runs = << "datastore", "dsvm" >>
    /\ calls = << Call("DsvmCompute", TRUE, "returned") >>
    /\ dsvm_compute = compute_target_name
    /\ compute_target_name \in computes
    /\ nb_error = NoError

\* C24: the datastore cell registers 'input_images' if and only if it is
\* not registered: a registration is made only when the datastore was
\* absent at the lookup, and a cell that went past the lookup with the
\* datastore absent has made one.
C24_RegisterIffAbsent ==
    /\ \A k \in CallsOf("register_azure_blob_container") :
         /\ k > 1
         /\ calls[k - 1].call = "Datastore.get"
         /\ ~calls[k - 1].present
    /\ \A k \in CallsOf("Datastore.get") :
         (~calls[k].present /\ Len(calls) > k) =>
             calls[k + 1].call = "register_azure_blob_container"

\* position in runs of the last execution of cell c, 0 when there is none
LastRun(c) ==
    IF \E k \in 1..Len(runs) : runs[k] = c
    THEN CHOOSE k \in 1..Len(runs) :
             runs[k] = c /\ \A j \in (k + 1)..Len(runs) : runs[j] # c
    ELSE 0

\* the Register cell, then the Deploy cell, then the test-client cell were
\* executed, the model was registered and the client was made
RegisteredDeployedTested ==
    /\ 0 < LastRun("register")
    /\ LastRun("register") < LastRun("deploy")
    /\ LastRun("deploy") < LastRun("client")
    /\ registered_model # 0
    /\ client # 0

\* a deployment is made with a registered model, by a Deploy cell executed
\* after the Register cell
DeployAfterRegister ==
    \A k \in CallsOf("Webservice.deploy_from_model") :
        calls[k].outcome = "returned" =>
            /\ registered_model # 0
            /\ 0 < LastRun("register")
            /\ LastRun("register") < LastRun("deploy")
            /\ services = registered_model

\* C25: after the Register and the Deploy cell have run, the service the
\* test client talks to was deployed from the model version registered in
\* this session; and a deployment is never made before the registration.
C25_ServiceFromRegisteredModel ==
    /\ RegisteredDeployedTested => client = registered_model
    /\ DeployAfterRegister

\* C30: no exception of the steps of run leaves run: a call that has ended
\* returned either an object with the single key 'error', holding the
\* exception raised, or an object with 'predictions' and 'labels' of equal
\* length in which every label is the name at index predictions[k] of the
\* list, and the list names the categories in the order of label_map (the
\* name at index i is the category label_map maps to i).
C30_RunReturnsErrorOrLabels ==
    /\ score_pc # "Escaped"
    /\ exc # NoError => score_pc \in {"Except", "Done"}
    /\ \A i \in 1..Len(score_labels) :
         /\ score_labels[i] \in Categories
         /\ label_map[score_labels[i]] = i - 1
    /\ Len(score_labels) = Cardinality(Categories)
    /\ score_pc = "Done" =>
         \/ /\ DOMAIN returned = {"error"}
            /\ exc # NoError
            /\ returned.error = exc
         \/ /\ DOMAIN returned = {"predictions", "labels"}
            /\ exc = NoError
            /\ Len(returned.predictions) = Len(returned.labels)
            /\ Len(returned.predictions) = raw_data.n
            /\ \A k \in 1..Len(returned.labels) :
                 /\ returned.predictions[k] \in 0..(Len(score_labels) - 1)
                 /\ returned.labels[k] = score_labels[returned.predictions[k] + 1]
                 /\ label_map[returned.labels[k]] = returned.predictions[k]

C30_Witness ==
    /\ score_pc = "Done"
    /\ raw_data.n = 2
    /\ DOMAIN returned = {"predictions", "labels"}
    /\ returned.predictions = << 5, 0 >>
    /\ returned.labels = << "Shrub", "Barren" >>

====
